---- MODULE Spec2Model ----
(***************************************************************************)
(* Model of the Tavily reconnaissance tools of cai:                        *)
(*   src/cai/tools/reconnaissance/tavily.py       (requests-based,         *)
(*                                                 degrade-gracefully)     *)
(*   src/cai/tools/reconnaissance/tavily_tool.py  (TavilyClient-based)     *)
(*                                                                         *)
(* One invocation of an operation is three steps: the call (credential     *)
(* check, request construction, dispatch), the remote service's reply,     *)
(* and the return (response handling and report rendering).                *)
(*                                                                         *)
(* Python values are tagged records so that values of different Python     *)
(* types can be told apart: None, str, int, bool, list, dict.  A str whose *)
(* characters matter (raw page content) is a "text": a sequence of         *)
(* one-character strings.  A dict is a function from its keys.  A report   *)
(* is the sequence of the lines the operation renders.                     *)
(*                                                                         *)
(* The fields of every record are written in the order in which their      *)
(* names first occur in the module, which is the order TLC keeps them in:  *)
(* a record written otherwise is reordered in place when first compared,   *)
(* and two workers doing so at once corrupt it.                            *)
(***************************************************************************)
EXTENDS Integers, Sequences, FiniteSets, TLC

VARIABLES env, pc, op, args, calls, request, reply, outcome

vars == <<env, pc, op, args, calls, request, reply, outcome>>

---------------------------------------------------------------------------
(* Bounds of the model.                                                    *)

\* most negative limit / max_results a caller passes is -MaxNeg
MaxNeg == 2
\* largest limit / max_results a caller passes
MaxInput == 22
\* most results (pages, urls) a response carries
MaxResults == 2
\* characters by which the longest raw content exceeds the preview length
MaxExtra == 30

---------------------------------------------------------------------------
(* Program constants.                                                      *)

\* tavily_tool.py:82  min(max(max_results, 5), 20)
SearchMinResults == 5
SearchMaxResults == 20
\* tavily.py:142 and tavily_tool.py:267  [:200]
PreviewLen == 200
\* tavily_tool.py:193  result["images"][:20]
ExtractMaxImages == 20
\* tavily_tool.py:238-240, 309-311  max(x, 1)
CrawlMin == 1

---------------------------------------------------------------------------
(* Python values.                                                          *)

NoneV == [t |-> "none"]
S(x) == [t |-> "str", v |-> x]
T(q) == [t |-> "text", v |-> q]
I(n) == [t |-> "int", v |-> n]
B(b) == [t |-> "bool", v |-> b]
L(q) == [t |-> "list", v |-> q]
D(f) == [t |-> "dict", v |-> f]

\* Python truthiness: `if x`, `not x`, `x and ...`
Truthy(x) ==
    CASE x.t = "none" -> FALSE
      [] x.t = "str"  -> x.v # ""
      [] x.t = "text" -> Len(x.v) > 0
      [] x.t = "int"  -> x.v # 0
      [] x.t = "bool" -> x.v
      [] x.t = "list" -> Len(x.v) > 0
      [] x.t = "dict" -> DOMAIN x.v # {}

IsStr(x) == x.t \in {"str", "text"}

\* dict.get(k, default)
Get(d, k, default) == IF k \in DOMAIN d THEN d[k] ELSE default

\* d[k] = v
Put(d, k, v) == [x \in DOMAIN d \cup {k} |-> IF x = k THEN v ELSE d[x]]

Min2(a, b) == IF a < b THEN a ELSE b
Max2(a, b) == IF a > b THEN a ELSE b

\* s[:k] on a list or str, for any integer k
SliceTo(s, k) ==
    IF k >= 0 THEN SubSeq(s, 1, Min2(k, Len(s)))
    ELSE SubSeq(s, 1, Max2(Len(s) + k, 0))

\* a str of n characters, no two neighbours alike
Chars(n) == [i \in 1..n |-> IF i % 5 = 0 THEN "." ELSE IF i % 2 = 0 THEN "a" ELSE "b"]

Ellipsis == <<".", ".", ".">>

\* one rendered line of a report
Line(label, val) == [label |-> label, val |-> val]

Blank == Line("", NoneV)

NoReq == [t |-> "none"]
NoReply == [kind |-> "none"]
NoOutcome == [kind |-> "none"]

Returned(report) == [kind |-> "returned", report |-> report]
Raised(exc) == [kind |-> "raised", exc |-> exc]

---------------------------------------------------------------------------
(* Inputs: what callers pass and what the remote service answers.          *)

\* TAVILY_KEY in the process environment: unset, empty, or a key
KeyValues == {NoneV, S(""), S("tvly-key")}

Queries == {"X", "Y"}

Limits == (0 - MaxNeg)..MaxInput

DomainLists == {<<>>, <<S("a.com")>>, <<S("a.com"), S("b.org")>>}

EmptyDict == [k \in {} |-> NoneV]

\* results as the search endpoint returns them; the fields a result carries vary
ResultPool ==
    { D([title |-> S("T1"), url |-> S("U1"), content |-> S("C1"), score |-> I(910),
         published_date |-> S("D1"), raw_content |-> T(Chars(PreviewLen + MaxExtra)),
         favicon |-> S("F1"), images |-> L(<<S("i1"), S("i2")>>)]),
      D([title |-> S("T2"), url |-> S("U2"), content |-> S("C2"), score |-> I(775),
         raw_content |-> T(Chars(PreviewLen))]),
      D([url |-> S("U3"), content |-> S("C3"), raw_content |-> T(Chars(PreviewLen + 1))]),
      D([title |-> S("T4"), url |-> S("U4"), content |-> S("C4"), score |-> I(500),
         raw_content |-> NoneV,
         images |-> L(<<S("i3"), D([url |-> S("i4"), description |-> S("d4")])>>)]),
      D([title |-> S("T5"), content |-> S("C5"), score |-> I(120), images |-> L(<<>>)]) }

\* the lists of at most n distinct elements of pool
ListsOf(pool, n) ==
    UNION { { q \in [1..k -> pool] : \A i, j \in 1..k : q[i] = q[j] => i = j } : k \in 0..n }

\* bodies of a 200 reply of POST /search, as response.json() returns them
SearchDatas ==
    { D(EmptyDict), D([results |-> NoneV]) }
    \cup { D([results |-> L(q)]) : q \in ListsOf(ResultPool, MaxResults) }

AnswerDatas ==
    { D(EmptyDict), D([answer |-> NoneV]), D([answer |-> S("")]), D([answer |-> S("A1")]) }

\* what requests.post and response.json() can produce
HttpReplies(datas) ==
    { [kind |-> "exception"], [kind |-> "status"], [kind |-> "bad_json"] }
    \cup { [kind |-> "ok", data |-> d] : d \in datas }

---------------------------------------------------------------------------
(* tavily.py                                                               *)

RECURSIVE Concat(_)
Concat(qs) == IF qs = <<>> THEN <<>> ELSE Head(qs) \o Concat(Tail(qs))

Text(s) == <<Line("text", S(s))>>

\* a credential check that only tests for None
KeyMissing_NoneOnly(key) == key.t = "none"

\* the credential check: `if not api_key`
KeyMissing(key) == ~Truthy(key)

\* a payload that leaves out the domain filters nobody set
SearchPayload_OmitsEmpty(query, limit, search_depth, topic, include_images) ==
    LET payload == [query |-> S(query),
                    search_depth |-> S(search_depth),
                    include_images |-> B(include_images),
                    include_answer |-> B(TRUE),
                    include_raw_content |-> B(search_depth = "advanced"),
                    max_results |-> I(limit)]
    IN  IF topic = "news" THEN Put(payload, "topic", S("news")) ELSE payload

\* _perform_tavily_search: the payload posted
SearchPayload(query, limit, search_depth, topic, include_images) ==
    LET payload == [query |-> S(query),
                    search_depth |-> S(search_depth),
                    include_images |-> B(include_images),
                    include_answer |-> B(TRUE),
                    include_raw_content |-> B(search_depth = "advanced"),
                    max_results |-> I(limit),
                    include_domains |-> L(<<>>),
                    exclude_domains |-> L(<<>>)]
    IN  IF topic = "news" THEN Put(payload, "topic", S("news")) ELSE payload

Reverse(q) == [i \in 1..Len(q) |-> q[Len(q) + 1 - i]]

\* a result list handed on in another order than the service returned it in
PerformResults_Reversed(rep, limit) ==
    IF rep.kind # "ok" THEN <<>>
    ELSE LET data == rep.data.v
         IN  IF "results" \notin DOMAIN data THEN <<>>
             ELSE IF data["results"].t # "list" THEN <<>>
             ELSE Reverse(SliceTo(data["results"].v, limit))

\* _perform_tavily_search: the list returned for a reply
PerformResults(rep, limit) ==
    IF rep.kind # "ok" THEN <<>>
    ELSE LET data == rep.data.v
         IN  IF "results" \notin DOMAIN data THEN <<>>
             ELSE IF data["results"].t # "list" THEN <<>>
             ELSE SliceTo(data["results"].v, limit)

\* the five lines every tavily.py listing renders for a result
ResultLines(r) ==
    << Line("Title", Get(r, "title", S("N/A"))),
       Line("URL", Get(r, "url", S("N/A"))),
       Line("Content", Get(r, "content", S("N/A"))),
       Line("Score", Get(r, "score", S("N/A"))),
       Line("Published Date", Get(r, "published_date", S("N/A"))) >>

\* enumerate(results, 1)
Enumerate(results) == 1..Len(results)

\* tavily_search: the report for a result list
FormatSearch(results) ==
    IF Len(results) = 0 THEN Returned(Text("No results found or search error occurred."))
    ELSE Returned(Concat([i \in Enumerate(results) |->
            <<Line("Result", I(i))>> \o ResultLines(results[i].v) \o <<Blank>>]))

\* ', '.join(x) raises TypeError unless every item is a str
Joinable(x) == x.t = "list" /\ \A i \in 1..Len(x.v) : IsStr(x.v[i])

HasImages(r) == "images" \in DOMAIN r /\ Truthy(r["images"])

\* tavily_search_with_images: the report for a result list
FormatSearchWithImages(results) ==
    IF Len(results) = 0 THEN Returned(Text("No results found or search error occurred."))
    ELSE IF \E i \in 1..Len(results) : HasImages(results[i].v) /\ ~Joinable(results[i].v["images"])
         THEN Raised("TypeError")
    ELSE Returned(Concat([i \in Enumerate(results) |->
            <<Line("Result", I(i))>> \o ResultLines(results[i].v)
            \o (IF HasImages(results[i].v)
                THEN <<Line("Images", results[i].v["images"])>> ELSE <<>>)
            \o <<Blank>>]))

\* a news report that forgets the empty case
FormatNews_NoEmptyCheck(query, results) ==
    Returned(<<Line("News search results for", S(query)), Blank>>
        \o Concat([i \in 1..Len(results) |->
            <<Line("News", I(i)), Line("Title", Get(results[i].v, "title", S("N/A"))),
              Line("URL", Get(results[i].v, "url", S("N/A"))),
              Line("Content", Get(results[i].v, "content", S("N/A"))),
              Line("Score", Get(results[i].v, "score", S("N/A"))),
              Line("Published Date", Get(results[i].v, "published_date", S("N/A"))),
              Blank>>]))

\* tavily_news_search: the report for a result list
FormatNews(query, results) ==
    IF Len(results) = 0 THEN Returned(Text("No news results found or search error occurred."))
    ELSE Returned(<<Line("News search results for", S(query)), Blank>>
            \o Concat([i \in Enumerate(results) |->
                <<Line("News", I(i))>> \o ResultLines(results[i].v) \o <<Blank>>]))

\* tavily_research: result['raw_content'][:200] followed by "..."
ResearchPreview(raw) == T(SliceTo(raw.v, PreviewLen) \o Ellipsis)

\* tavily_research: the report for a result list
FormatResearch(query, results) ==
    IF Len(results) = 0 THEN Returned(Text("No research results found or search error occurred."))
    ELSE IF \E i \in 1..Len(results) :
              "raw_content" \in DOMAIN results[i].v /\ ~IsStr(results[i].v["raw_content"])
         THEN Raised("TypeError")
    ELSE Returned(<<Line("Research results for", S(query)), Blank>>
            \o Concat([i \in Enumerate(results) |->
                <<Line("Research Result", I(i))>> \o ResultLines(results[i].v)
                \o (IF "raw_content" \in DOMAIN results[i].v
                    THEN <<Line("Raw Content Preview", ResearchPreview(results[i].v["raw_content"]))>>
                    ELSE <<>>)
                \o <<Blank>>]))

\* _get_tavily_answer: the payload posted
AnswerPayload(query) ==
    [query |-> S(query), search_depth |-> S("basic"),
     include_answer |-> B(TRUE), max_results |-> I(1)]

\* _get_tavily_answer: the answer returned for a reply
GetAnswer(rep) ==
    IF rep.kind # "ok" THEN NoneV ELSE Get(rep.data.v, "answer", NoneV)

\* tavily_get_answer: the report for an answer
FormatAnswer(query, answer) ==
    IF ~Truthy(answer) THEN Returned(Text("No answer found or search error occurred."))
    ELSE Returned(<<Line("Answer for", S(query)), Blank, Line("answer", answer)>>)

\* tavily_domain_search: the payload posted
DomainPayload(query, domains, limit) ==
    [query |-> S(query), search_depth |-> S("basic"), include_answer |-> B(FALSE),
     max_results |-> I(limit), include_domains |-> L(domains), exclude_domains |-> L(<<>>)]

\* tavily_domain_search: the four lines rendered for a result
DomainResultLines(r) ==
    << Line("Title", Get(r, "title", S("N/A"))),
       Line("URL", Get(r, "url", S("N/A"))),
       Line("Content", Get(r, "content", S("N/A"))),
       Line("Score", Get(r, "score", S("N/A"))) >>

\* tavily_domain_search: the report for a reply
FormatDomain(query, domains, rep) ==
    CASE rep.kind = "exception" -> Returned(Text("Error performing domain search: "))
      [] rep.kind = "status"    -> Returned(Text("Search error occurred."))
      [] rep.kind = "bad_json"  -> Returned(Text("Error performing domain search: "))
      [] rep.kind = "ok" ->
            LET data == rep.data.v
            IN  IF "results" \notin DOMAIN data \/ ~Truthy(data["results"])
                THEN Returned(<<Line("No results found for", S(query)),
                                Line("in domains", L(domains))>>)
                ELSE LET results == data["results"].v
                     IN  Returned(<<Line("Domain search results for", S(query)),
                                    Line("in", L(domains)), Blank>>
                            \o Concat([i \in Enumerate(results) |->
                                <<Line("Result", I(i))>> \o DomainResultLines(results[i].v)
                                \o <<Blank>>]))

---------------------------------------------------------------------------
(* tavily_tool.py                                                          *)

\* a test that only excludes None
IsSet_NotNone(value) == value.t # "none"

\* _add_optional_params: the test `value is not None and value != [] and value != ""`
IsSet(value) ==
    /\ value.t # "none"
    /\ ~(value.t = "list" /\ Len(value.v) = 0)
    /\ ~(value.t = "str" /\ value.v = "")

\* _add_optional_params(params, **kwargs); kwargs is the sequence of <<key, value>>
RECURSIVE _add_optional_params(_, _)
_add_optional_params(params, kwargs) ==
    IF Len(kwargs) = 0 THEN params
    ELSE LET key == Head(kwargs)[1]
             value == Head(kwargs)[2]
         IN  _add_optional_params(IF IsSet(value) THEN Put(params, key, value) ELSE params,
                                  Tail(kwargs))

\* `x if x else None` on a bool flag
FlagOrNone(flag) == IF flag THEN B(TRUE) ELSE NoneV

\* str.lower() on the country names callers pass
Lower(s) == CASE s = "US" -> "us" [] s = "De" -> "de" [] OTHER -> s

\* a clamp that forgets the upper bound
ClampResults_NoUpper(max_results) == Max2(max_results, SearchMinResults)

\* tavily_search: min(max(max_results, 5), 20)
ClampResults(max_results) == Min2(Max2(max_results, SearchMinResults), SearchMaxResults)

\* tavily_search: search_params before the optional parameters are added
SearchBaseParams(a) ==
    [query |-> S(a.query),
     search_depth |-> S(a.search_depth),
     topic |-> S(a.topic),
     include_images |-> B(a.include_images \/ a.include_image_descriptions),
     include_raw_content |-> B(a.include_raw_content),
     max_results |-> I(ClampResults(a.max_results)),
     include_image_descriptions |-> B(a.include_image_descriptions)]

\* tavily_search: the keyword arguments given to _add_optional_params
SearchOptional(a) ==
    << <<"time_range", a.time_range>>,
       <<"include_domains", a.include_domains>>,
       <<"exclude_domains", a.exclude_domains>>,
       <<"include_favicon", FlagOrNone(a.include_favicon)>> >>

\* search_params that carry days whatever the topic
SearchParams_DaysAnyTopic(a) ==
    LET p0 == SearchBaseParams(a)
        p1 == IF a.days.t # "none" THEN Put(p0, "days", a.days) ELSE p0
        p2 == _add_optional_params(p1, SearchOptional(a))
    IN  IF Truthy(a.country) /\ a.topic = "general"
        THEN Put(Put(p2, "topic", S("general")), "country", S(Lower(a.country.v)))
        ELSE p2

\* tavily_search: search_params as given to TavilyClient.search
SearchParams(a) ==
    LET p0 == SearchBaseParams(a)
        p1 == IF a.days.t # "none" /\ a.topic = "news" THEN Put(p0, "days", a.days) ELSE p0
        p2 == _add_optional_params(p1, SearchOptional(a))
    IN  IF Truthy(a.country) /\ a.topic = "general"
        THEN Put(Put(p2, "topic", S("general")), "country", S(Lower(a.country.v)))
        ELSE p2

\* f"{score:.2f}": the score (in thousandths) to the nearest hundredth
Fmt2f(score) == [t |-> "fixed2", v |-> (score.v + 5) \div 10]

\* tavily_search: the lines rendered for one result (every result has title, url, content)
ToolResultLines(a, r) ==
    << Line("Title", r["title"]), Line("URL", r["url"]), Line("Content", r["content"]) >>
    \o (IF "score" \in DOMAIN r THEN <<Line("Score", Fmt2f(r["score"]))>> ELSE <<>>)
    \o (IF a.include_raw_content /\ "raw_content" \in DOMAIN r /\ Truthy(r["raw_content"])
        THEN <<Line("Raw Content", r["raw_content"])>> ELSE <<>>)
    \o (IF a.include_favicon /\ "favicon" \in DOMAIN r /\ Truthy(r["favicon"])
        THEN <<Line("Favicon", r["favicon"])>> ELSE <<>>)

\* tavily_search: the lines rendered for image number index
ImageLines(index, image) ==
    IF IsStr(image) THEN <<Line("Image URL", L(<<I(index), image>>))>>
    ELSE IF image.t = "dict"
    THEN <<Line("Image URL", L(<<I(index), Get(image.v, "url", S("N/A"))>>))>>
         \o (IF "description" \in DOMAIN image.v /\ Truthy(image.v["description"])
             THEN <<Line("Description", image.v["description"])>> ELSE <<>>)
    ELSE <<>>

\* tavily_search: the report for a response
FormatToolSearch(a, response) ==
    IF "results" \notin DOMAIN response THEN Raised("KeyError")
    ELSE IF response["results"].t # "list" THEN Raised("TypeError")
    ELSE LET results == response["results"].v
         IN  IF \E i \in 1..Len(results) : ~({"title", "url", "content"} \subseteq DOMAIN results[i].v)
             THEN Raised("KeyError")
             ELSE Returned(
                (IF "answer" \in DOMAIN response /\ Truthy(response["answer"])
                 THEN <<Line("Answer", response["answer"]), Blank>> ELSE <<>>)
                \o Text("Detailed Results:")
                \o Concat([i \in 1..Len(results) |-> ToolResultLines(a, results[i].v)])
                \o (IF a.include_images /\ "images" \in DOMAIN response /\ Truthy(response["images"])
                    THEN Text("Images:")
                         \o Concat([i \in 1..Len(response["images"].v) |->
                                ImageLines(i, response["images"].v[i])])
                    ELSE <<>>))

\* tavily_extract: extract_params before the optional parameters are added
ExtractBaseParams(a) == [urls |-> L(a.urls), extract_depth |-> S(a.extract_depth)]

\* tavily_extract: the keyword arguments given to _add_optional_params
ExtractOptional(a) ==
    << <<"include_images", FlagOrNone(a.include_images)>>,
       <<"format", S(a.format)>>,
       <<"include_favicon", FlagOrNone(a.include_favicon)>> >>

\* tavily_extract: extract_params as given to TavilyClient.extract
ExtractParams(a) == _add_optional_params(ExtractBaseParams(a), ExtractOptional(a))

\* tavily_extract: the lines rendered for one result (every result has a url)
ExtractResultLines(a, r) ==
    <<Line("URL", r["url"])>>
    \o (IF "raw_content" \in DOMAIN r /\ Truthy(r["raw_content"])
        THEN <<Line("Content", r["raw_content"])>> ELSE <<>>)
    \o (IF a.include_favicon /\ "favicon" \in DOMAIN r /\ Truthy(r["favicon"])
        THEN <<Line("Favicon", r["favicon"])>> ELSE <<>>)
    \o (IF a.include_images /\ "images" \in DOMAIN r /\ Truthy(r["images"])
        THEN <<Line("Images found", I(Len(r["images"].v)))>>
             \o (LET shown == SliceTo(r["images"].v, ExtractMaxImages)
                 IN  [i \in 1..Len(shown) |-> Line("Image", L(<<I(i), shown[i]>>))])
        ELSE <<>>)

\* tavily_extract: the report for a response
FormatExtract(a, response) ==
    IF "results" \notin DOMAIN response THEN Raised("KeyError")
    ELSE IF response["results"].t # "list" THEN Raised("TypeError")
    ELSE LET results == response["results"].v
         IN  IF \E i \in 1..Len(results) : "url" \notin DOMAIN results[i].v
             THEN Raised("KeyError")
             ELSE Returned(Text("Detailed Results:")
                    \o Concat([i \in 1..Len(results) |-> ExtractResultLines(a, results[i].v)]))

\* tavily_crawl, tavily_map: max(x, 1)
AtLeastOne(x) == Max2(x, CrawlMin)

\* the crawl and map parameters both operations pass to _add_optional_params
SelectOptional(a) ==
    << <<"instructions", a.instructions>>,
       <<"select_paths", a.select_paths>>,
       <<"select_domains", a.select_domains>> >>

\* tavily_crawl: crawl_params before the optional parameters are added
CrawlBaseParams(a) ==
    [url |-> S(a.url),
     limit |-> I(AtLeastOne(a.limit)),
     extract_depth |-> S(a.extract_depth),
     max_depth |-> I(AtLeastOne(a.max_depth)),
     max_breadth |-> I(AtLeastOne(a.max_breadth)),
     allow_external |-> B(a.allow_external)]

\* tavily_crawl: the keyword arguments given to _add_optional_params
CrawlOptional(a) ==
    SelectOptional(a)
    \o << <<"format", S(a.format)>>, <<"include_favicon", FlagOrNone(a.include_favicon)>> >>

\* tavily_crawl: crawl_params as given to TavilyClient.crawl
CrawlParams(a) == _add_optional_params(CrawlBaseParams(a), CrawlOptional(a))

\* a preview cut to length without the marker
CrawlPreview_NoMarker(raw) == T(SliceTo(raw.v, PreviewLen))

\* tavily_crawl: the content preview of a page
CrawlPreview(raw) ==
    IF Len(raw.v) > PreviewLen THEN T(SliceTo(raw.v, PreviewLen) \o Ellipsis) ELSE raw

\* tavily_crawl: the lines rendered for page number index
CrawlPageLines(a, index, page) ==
    <<Line("Page URL", L(<<I(index), Get(page, "url", S("N/A"))>>))>>
    \o (IF "raw_content" \in DOMAIN page /\ Truthy(page["raw_content"])
        THEN <<Line("Content", CrawlPreview(page["raw_content"]))>> ELSE <<>>)
    \o (IF a.include_favicon /\ "favicon" \in DOMAIN page /\ Truthy(page["favicon"])
        THEN <<Line("Favicon", page["favicon"])>> ELSE <<>>)

\* tavily_crawl: the report for a response
FormatCrawl(a, response) ==
    LET results == Get(response, "results", L(<<>>))
    IN  IF results.t # "list" THEN Raised("TypeError")
        ELSE Returned(
            Text("Crawl Results:")
            \o <<Line("Base URL", Get(response, "base_url", S(a.url)))>>
            \o Text("Crawled Pages:")
            \o Concat([i \in 1..Len(results.v) |-> CrawlPageLines(a, i, results.v[i].v)]))

\* tavily_map: map_params before the optional parameters are added
MapBaseParams(a) ==
    [url |-> S(a.url),
     limit |-> I(AtLeastOne(a.limit)),
     max_depth |-> I(AtLeastOne(a.max_depth)),
     max_breadth |-> I(AtLeastOne(a.max_breadth)),
     allow_external |-> B(a.allow_external)]

\* tavily_map: map_params as given to TavilyClient.map
MapParams(a) == _add_optional_params(MapBaseParams(a), SelectOptional(a))

\* tavily_map: the report for a response
FormatMap(a, response) ==
    LET results == Get(response, "results", L(<<>>))
    IN  IF results.t # "list" THEN Raised("TypeError")
        ELSE Returned(
            Text("Site Map Results:")
            \o <<Line("Base URL", Get(response, "base_url", S(a.url)))>>
            \o Text("Mapped Pages:")
            \o [i \in 1..Len(results.v) |-> Line("Page URL", L(<<I(i), results.v[i]>>))])

---------------------------------------------------------------------------
(* Inputs of tavily_tool.py.                                               *)

OptionalLists == {NoneV, L(<<>>), L(<<S("a.com")>>)}

SearchDefaults ==
    [query |-> "X", search_depth |-> "basic", topic |-> "general",
     include_images |-> FALSE, include_raw_content |-> FALSE, max_results |-> 10,
     include_domains |-> NoneV, exclude_domains |-> NoneV,
     include_image_descriptions |-> FALSE, time_range |-> NoneV,
     include_favicon |-> FALSE, days |-> NoneV, country |-> NoneV]

\* the calls of tavily_search explored: each group of related parameters takes all
\* its values while the other parameters keep their defaults
SearchArgs ==
    { [SearchDefaults EXCEPT !.max_results = m, !.search_depth = d] :
        m \in Limits, d \in {"basic", "advanced"} }
    \cup { [SearchDefaults EXCEPT !.topic = tp, !.days = dy, !.country = c, !.time_range = tr] :
        tp \in {"general", "news"}, dy \in {NoneV, I(3)},
        c \in {NoneV, S(""), S("US")}, tr \in {NoneV, S(""), S("week")} }
    \cup { [SearchDefaults EXCEPT !.include_domains = i, !.exclude_domains = e] :
        i \in OptionalLists, e \in OptionalLists }
    \cup { [SearchDefaults EXCEPT !.include_images = i, !.include_image_descriptions = d,
                                  !.include_raw_content = r, !.include_favicon = f] :
        i \in BOOLEAN, d \in BOOLEAN, r \in BOOLEAN, f \in BOOLEAN }

ImageLists ==
    { L(<<>>),
      L(<<S("i1"), D([url |-> S("i2"), description |-> S("d2")]), D([description |-> S("d3")])>>) }

\* responses of TavilyClient.search
ToolSearchDatas ==
    { D(EmptyDict), D([results |-> NoneV]) }
    \cup { D([results |-> L(q)]) : q \in ListsOf(ResultPool, MaxResults) }
    \cup { D([results |-> L(q), answer |-> S("A1")]) : q \in ListsOf(ResultPool, 1) }
    \cup { D([images |-> im, results |-> L(q)]) : q \in ListsOf(ResultPool, MaxResults), im \in ImageLists }

ExtractArgs ==
    [include_images : BOOLEAN, include_favicon : BOOLEAN,
     urls : {<<S("u1")>>, <<S("u1"), S("u2")>>}, extract_depth : {"basic", "advanced"},
     format : {"markdown", "text", ""}]

ExtractPool ==
    { D([url |-> S("u1"), raw_content |-> T(Chars(3)), favicon |-> S("F1"),
         images |-> L(<<S("i1"), S("i2")>>)]),
      D([url |-> S("u2"), raw_content |-> T(<<>>),
         images |-> L([i \in 1..(ExtractMaxImages + 1) |-> S("i")])]),
      D([url |-> S("u3"), images |-> L(<<S("i1"), D([url |-> S("i2")])>>)]),
      D([raw_content |-> T(Chars(2))]) }

\* responses of TavilyClient.extract
ExtractDatas ==
    { D(EmptyDict) } \cup { D([results |-> L(q)]) : q \in ListsOf(ExtractPool, MaxResults) }

SmallInts == (0 - MaxNeg)..2

CrawlDefaults ==
    [url |-> "http://r", limit |-> 50, include_favicon |-> FALSE,
     extract_depth |-> "basic", format |-> "markdown",
     instructions |-> NoneV, select_paths |-> NoneV, select_domains |-> NoneV,
     max_depth |-> 1, max_breadth |-> 20, allow_external |-> TRUE]

\* the calls of tavily_crawl explored, grouped as for tavily_search
CrawlArgs ==
    { [CrawlDefaults EXCEPT !.max_depth = x, !.max_breadth = y, !.limit = y] :
        x \in SmallInts, y \in SmallInts }
    \cup { [CrawlDefaults EXCEPT !.instructions = i, !.select_paths = sp, !.select_domains = sd] :
        i \in {NoneV, S(""), S("docs only")}, sp \in OptionalLists, sd \in OptionalLists }
    \cup { [CrawlDefaults EXCEPT !.format = f, !.include_favicon = fv,
                                 !.allow_external = x, !.extract_depth = d] :
        f \in {"markdown", "text", ""}, fv \in BOOLEAN, x \in BOOLEAN,
        d \in {"basic", "advanced"} }

PagePool ==
    { D([url |-> S("p1"), raw_content |-> T(Chars(PreviewLen + MaxExtra)), favicon |-> S("F1")]),
      D([url |-> S("p2"), raw_content |-> T(Chars(PreviewLen))]),
      D([url |-> S("p3"), raw_content |-> T(Chars(PreviewLen + 1))]),
      D([url |-> S("p4"), raw_content |-> T(Chars(PreviewLen - 1))]),
      D([raw_content |-> T(<<>>)]),
      D([url |-> S("p6"), raw_content |-> NoneV]) }

\* responses of TavilyClient.crawl
CrawlDatas ==
    { D(EmptyDict) }
    \cup { D([results |-> L(q)]) : q \in ListsOf(PagePool, MaxResults) }
    \cup { D([results |-> L(q), base_url |-> S("http://b")]) : q \in ListsOf(PagePool, 1) }

MapDefaults ==
    [url |-> "http://r", limit |-> 50,
     instructions |-> NoneV, select_paths |-> NoneV, select_domains |-> NoneV,
     max_depth |-> 1, max_breadth |-> 20, allow_external |-> TRUE]

\* the calls of tavily_map explored, grouped as for tavily_search
MapArgs ==
    { [MapDefaults EXCEPT !.max_depth = x, !.max_breadth = y, !.limit = y, !.allow_external = e] :
        x \in SmallInts, y \in SmallInts, e \in BOOLEAN }
    \cup { [MapDefaults EXCEPT !.instructions = i, !.select_paths = sp, !.select_domains = sd] :
        i \in {NoneV, S(""), S("docs only")}, sp \in OptionalLists, sd \in OptionalLists }

\* responses of TavilyClient.map
MapDatas ==
    { D(EmptyDict) }
    \cup { D([results |-> L(q)]) : q \in ListsOf({S("p1"), S("p2"), S("p3")}, MaxResults) }
    \cup { D([results |-> L(q), base_url |-> S("http://b")]) :
            q \in ListsOf({S("p1"), S("p2"), S("p3")}, 1) }

\* what a TavilyClient method can produce: it raises, or returns the response
SdkReplies(datas) == { [kind |-> "exception"] } \cup { [kind |-> "ok", data |-> d] : d \in datas }

---------------------------------------------------------------------------
(* The operations.                                                         *)

TavilyOps == {"tavily.tavily_search", "tavily.tavily_search_with_images",
              "tavily.tavily_news_search", "tavily.tavily_research",
              "tavily.tavily_get_answer", "tavily.tavily_domain_search"}

ToolOps == {"tavily_tool.tavily_search", "tavily_tool.tavily_extract",
            "tavily_tool.tavily_crawl", "tavily_tool.tavily_map"}

Init ==
    /\ env \in KeyValues
    /\ pc = "idle"
    /\ op = "none"
    /\ args = EmptyDict
    /\ calls = 0
    /\ request = NoReq
    /\ reply = NoReply
    /\ outcome = NoOutcome

\* The call of operation o with arguments a, up to the dispatch of payload: without
\* a credential the operation ends at once with outcome nokey and nothing is sent.
Call(o, a, payload, nokey) ==
    /\ pc = "idle"
    /\ op' = o
    /\ args' = a
    /\ IF KeyMissing(env)
       THEN /\ pc' = "done"
            /\ outcome' = nokey
            /\ UNCHANGED <<calls, request>>
       ELSE /\ pc' = "dispatched"
            /\ request' = D(payload)
            /\ calls' = calls + 1
            /\ UNCHANGED outcome
    /\ UNCHANGED <<env, reply>>

\* The rest of operation o once the remote service replied.
Return(o, result) ==
    /\ pc = "responded"
    /\ op = o
    /\ pc' = "done"
    /\ outcome' = result
    /\ UNCHANGED <<env, op, args, calls, request, reply>>

\* a missing credential reported as an empty listing
NoClient_Swallowed == Returned(Text("Detailed Results:"))

\* _get_tavily_client raises ValueError without a credential
NoClient == Raised("ValueError")

\* a TavilyClient method that raises ends the operation with that exception
SdkReturn(formatted) == IF reply.kind = "exception" THEN Raised("TavilyError") ELSE formatted

tavily_search_call ==
    \E q \in Queries, limit \in Limits :
        Call("tavily.tavily_search", [query |-> q, limit |-> limit],
             SearchPayload(q, limit, "basic", "general", FALSE), FormatSearch(<<>>))

tavily_search_return ==
    Return("tavily.tavily_search", FormatSearch(PerformResults(reply, args.limit)))

tavily_search_with_images_call ==
    \E q \in Queries, limit \in Limits :
        Call("tavily.tavily_search_with_images", [query |-> q, limit |-> limit],
             SearchPayload(q, limit, "basic", "general", TRUE), FormatSearchWithImages(<<>>))

tavily_search_with_images_return ==
    Return("tavily.tavily_search_with_images",
           FormatSearchWithImages(PerformResults(reply, args.limit)))

tavily_news_search_call ==
    \E q \in Queries, limit \in Limits :
        Call("tavily.tavily_news_search", [query |-> q, limit |-> limit],
             SearchPayload(q, limit, "basic", "news", FALSE), FormatNews(q, <<>>))

tavily_news_search_return ==
    Return("tavily.tavily_news_search",
           FormatNews(args.query, PerformResults(reply, args.limit)))

tavily_research_call ==
    \E q \in Queries, limit \in Limits :
        Call("tavily.tavily_research", [query |-> q, limit |-> limit],
             SearchPayload(q, limit, "advanced", "general", FALSE), FormatResearch(q, <<>>))

tavily_research_return ==
    Return("tavily.tavily_research",
           FormatResearch(args.query, PerformResults(reply, args.limit)))

tavily_get_answer_call ==
    \E q \in Queries :
        Call("tavily.tavily_get_answer", [query |-> q],
             AnswerPayload(q), FormatAnswer(q, NoneV))

tavily_get_answer_return ==
    Return("tavily.tavily_get_answer", FormatAnswer(args.query, GetAnswer(reply)))

tavily_domain_search_call ==
    \E q \in Queries, domains \in DomainLists, limit \in Limits :
        Call("tavily.tavily_domain_search", [query |-> q, limit |-> limit, domains |-> domains],
             DomainPayload(q, domains, limit), Returned(Text("API key not found.")))

tavily_domain_search_return ==
    Return("tavily.tavily_domain_search", FormatDomain(args.query, args.domains, reply))

tool_tavily_search_call ==
    \E a \in SearchArgs : Call("tavily_tool.tavily_search", a, SearchParams(a), NoClient)

tool_tavily_search_return ==
    Return("tavily_tool.tavily_search", SdkReturn(FormatToolSearch(args, reply.data.v)))

tavily_extract_call ==
    \E a \in ExtractArgs : Call("tavily_tool.tavily_extract", a, ExtractParams(a), NoClient)

tavily_extract_return ==
    Return("tavily_tool.tavily_extract", SdkReturn(FormatExtract(args, reply.data.v)))

tavily_crawl_call ==
    \E a \in CrawlArgs : Call("tavily_tool.tavily_crawl", a, CrawlParams(a), NoClient)

tavily_crawl_return ==
    Return("tavily_tool.tavily_crawl", SdkReturn(FormatCrawl(args, reply.data.v)))

tavily_map_call ==
    \E a \in MapArgs : Call("tavily_tool.tavily_map", a, MapParams(a), NoClient)

tavily_map_return ==
    Return("tavily_tool.tavily_map", SdkReturn(FormatMap(args, reply.data.v)))

\* the replies the remote service can give to the request of operation o
RepliesFor(o) ==
    CASE o = "tavily.tavily_get_answer" -> HttpReplies(AnswerDatas)
      [] o \in TavilyOps \ {"tavily.tavily_get_answer"} -> HttpReplies(SearchDatas)
      [] o = "tavily_tool.tavily_search" -> SdkReplies(ToolSearchDatas)
      [] o = "tavily_tool.tavily_extract" -> SdkReplies(ExtractDatas)
      [] o = "tavily_tool.tavily_crawl" -> SdkReplies(CrawlDatas)
      [] o = "tavily_tool.tavily_map" -> SdkReplies(MapDatas)

\* The remote service replies to the one request in flight.
Respond ==
    /\ pc = "dispatched"
    /\ \E r \in RepliesFor(op) : reply' = r
    /\ pc' = "responded"
    /\ UNCHANGED <<env, op, args, calls, request, outcome>>

\* The caller takes the outcome; the next invocation starts afresh.
Finish ==
    /\ pc = "done"
    /\ pc' = "idle"
    /\ op' = "none"
    /\ args' = EmptyDict
    /\ calls' = 0
    /\ request' = NoReq
    /\ reply' = NoReply
    /\ outcome' = NoOutcome
    /\ UNCHANGED env

Next ==
    \/ tavily_search_call
    \/ tavily_search_return
    \/ tavily_search_with_images_call
    \/ tavily_search_with_images_return
    \/ tavily_news_search_call
    \/ tavily_news_search_return
    \/ tavily_research_call
    \/ tavily_research_return
    \/ tavily_get_answer_call
    \/ tavily_get_answer_return
    \/ tavily_domain_search_call
    \/ tavily_domain_search_return
    \/ tool_tavily_search_call
    \/ tool_tavily_search_return
    \/ tavily_extract_call
    \/ tavily_extract_return
    \/ tavily_crawl_call
    \/ tavily_crawl_return
    \/ tavily_map_call
    \/ tavily_map_return
    \/ Respond
    \/ Finish

Spec == Init /\ [][Next]_vars

---------------------------------------------------------------------------
(* Properties.                                                             *)

\* TAVILY_KEY is set and not empty
KeyPresent == env.t = "str" /\ env.v # ""

\* the lines of a report with a given label, in order
Labelled(report, label) ==
    LET Has(l) == l.label = label IN SelectSeq(report, Has)

\* the tavily.py operations that take a limit
LimitOps == TavilyOps \ {"tavily.tavily_get_answer"}

\* the operations that list search results
ListingOps == LimitOps \cup {"tavily_tool.tavily_search"}

Dispatched == request.t = "dict"

\* C1: an invocation of any operation has issued exactly one outbound call once
\* it is past its credential check when TAVILY_KEY is present, none when it is
\* absent or empty, and never a second one, whatever the remote service replied.
C1_OneOutboundCall ==
    /\ calls <= 1
    /\ pc \in {"dispatched", "responded", "done"} => calls = (IF KeyPresent THEN 1 ELSE 0)
    /\ Dispatched <=> calls = 1

\* an invocation whose only call failed has ended without a second call
C1_Witness ==
    /\ pc = "done"
    /\ reply.kind \in {"exception", "status"}
    /\ calls = 1

\* what each tavily.py operation returns when a search gave it nothing
EmptySentinel(o) ==
    CASE o = "tavily.tavily_search" -> "No results found or search error occurred."
      [] o = "tavily.tavily_search_with_images" -> "No results found or search error occurred."
      [] o = "tavily.tavily_news_search" -> "No news results found or search error occurred."
      [] o = "tavily.tavily_research" -> "No research results found or search error occurred."
      [] o = "tavily.tavily_get_answer" -> "No answer found or search error occurred."

C3_MaxResultsClamped ==
    op = "tavily_tool.tavily_search" =>
        /\ KeyPresent => Dispatched
        /\ Dispatched =>
            LET m == args.max_results
                r == request.v["max_results"].v
            IN  /\ r \in 5..20
                /\ r = (IF m < 5 THEN 5 ELSE IF m > 20 THEN 20 ELSE m)

\* a max_results above 20 was dispatched as 20
C3_Witness ==
    /\ op = "tavily_tool.tavily_search"
    /\ Dispatched
    /\ args.max_results > 20
    /\ request.v["max_results"].v = 20

\* C4 as stated: the max_results a tavily.py search operation dispatches lies
\* within 1..20.
C4_LimitClamped ==
    (op \in LimitOps /\ Dispatched) => request.v["max_results"].v \in 1..20

\* the claim's reading of "set": not null, not the empty string, not the empty list
Provided(x) ==
    /\ x.t # "none"
    /\ x.t = "str" => x.v # ""
    /\ x.t = "list" => Len(x.v) > 0

\* per operation, the fields routed through _add_optional_params: the key,
\* whether the caller set it, and the value the caller gave
Routed(o, a) ==
    CASE o = "tavily_tool.tavily_search" ->
            << <<"time_range", Provided(a.time_range), a.time_range>>,
               <<"include_domains", Provided(a.include_domains), a.include_domains>>,
               <<"exclude_domains", Provided(a.exclude_domains), a.exclude_domains>>,
               <<"include_favicon", a.include_favicon, B(TRUE)>> >>
      [] o = "tavily_tool.tavily_extract" ->
            << <<"include_images", a.include_images, B(TRUE)>>,
               <<"format", a.format # "", S(a.format)>>,
               <<"include_favicon", a.include_favicon, B(TRUE)>> >>
      [] o = "tavily_tool.tavily_crawl" ->
            << <<"instructions", Provided(a.instructions), a.instructions>>,
               <<"select_paths", Provided(a.select_paths), a.select_paths>>,
               <<"select_domains", Provided(a.select_domains), a.select_domains>>,
               <<"format", a.format # "", S(a.format)>>,
               <<"include_favicon", a.include_favicon, B(TRUE)>> >>
      [] o = "tavily_tool.tavily_map" ->
            << <<"instructions", Provided(a.instructions), a.instructions>>,
               <<"select_paths", Provided(a.select_paths), a.select_paths>>,
               <<"select_domains", Provided(a.select_domains), a.select_domains>> >>

\* per operation, the request before _add_optional_params is applied
BaseParams(o, a) ==
    CASE o = "tavily_tool.tavily_search" -> SearchBaseParams(a)
      [] o = "tavily_tool.tavily_extract" -> ExtractBaseParams(a)
      [] o = "tavily_tool.tavily_crawl" -> CrawlBaseParams(a)
      [] o = "tavily_tool.tavily_map" -> MapBaseParams(a)

\* C5: in the four tavily_tool.py operations a field routed through
\* _add_optional_params is a key of the request exactly when the caller set it
\* (not null, not "", not [], a false flag counting as unset), then with the
\* caller's value; every key the request had before is still there, unchanged.
C5_OptionalFields ==
    (op \in ToolOps /\ Dispatched) =>
        LET r == request.v
            routed == Routed(op, args)
            base == BaseParams(op, args)
        IN  /\ \A i \in 1..Len(routed) :
                /\ (routed[i][1] \in DOMAIN r) <=> routed[i][2]
                /\ routed[i][2] => r[routed[i][1]] = routed[i][3]
            /\ \A k \in DOMAIN base : k \in DOMAIN r /\ r[k] = base[k]

\* a search was dispatched with an empty include_domains left out and a
\* non-empty exclude_domains kept
C5_Witness ==
    /\ op = "tavily_tool.tavily_search"
    /\ Dispatched
    /\ args.include_domains = L(<<>>)
    /\ "include_domains" \notin DOMAIN request.v
    /\ "exclude_domains" \in DOMAIN request.v

DomainKeys == {"include_domains", "exclude_domains"}

ReplyResults ==
    IF reply.kind = "ok" /\ "results" \in DOMAIN reply.data.v
          /\ reply.data.v["results"].t = "list"
    THEN reply.data.v["results"].v
    ELSE <<>>

HasRaw(r) == "raw_content" \in DOMAIN r.v

HasContent(r) == HasRaw(r) /\ Truthy(r.v["raw_content"])

\* C7: in the reports of tavily_crawl and tavily_research, the preview of a raw
\* content longer than 200 characters is its first 200 characters followed by
\* "...", and is not the content itself.
C7_LongContentTruncated ==
    (pc = "done" /\ outcome.kind = "returned") =>
        /\ op = "tavily_tool.tavily_crawl" =>
            LET shown == Labelled(outcome.report, "Content")
                pages == SelectSeq(ReplyResults, HasContent)
            IN  /\ Len(shown) = Len(pages)
                /\ \A i \in 1..Len(pages) :
                    LET raw == pages[i].v["raw_content"].v
                    IN  Len(raw) > 200 =>
                            /\ shown[i].val.v = SubSeq(raw, 1, 200) \o <<".", ".", ".">>
                            /\ shown[i].val.v # raw
        /\ op = "tavily.tavily_research" =>
            LET shown == Labelled(outcome.report, "Raw Content Preview")
                results == SelectSeq(ReplyResults, HasRaw)
            IN  /\ Len(shown) <= Len(results)
                /\ \A i \in 1..Len(shown) :
                    LET raw == results[i].v["raw_content"].v
                    IN  Len(raw) > 200 =>
                            /\ shown[i].val.v = SubSeq(raw, 1, 200) \o <<".", ".", ".">>
                            /\ shown[i].val.v # raw

\* a crawl report shows a preview of 203 characters for a longer page
C7_Witness ==
    /\ pc = "done"
    /\ op = "tavily_tool.tavily_crawl"
    /\ outcome.kind = "returned"
    /\ \E i \in 1..Len(outcome.report) :
        /\ outcome.report[i].label = "Content"
        /\ Len(outcome.report[i].val.v) = 203
    /\ \E j \in 1..Len(ReplyResults) :
        HasContent(ReplyResults[j]) /\ Len(ReplyResults[j].v["raw_content"].v) > 203

\* the remote call succeeded and returned an empty result list
ZeroResults ==
    /\ reply.kind = "ok"
    /\ "results" \in DOMAIN reply.data.v
    /\ reply.data.v["results"] = L(<<>>)

BlockHeaders(report) ==
    LET IsHeader(l) == l.label \in {"Result", "News", "Research Result"}
    IN  SelectSeq(report, IsHeader)

\* C9: the result blocks of a report are the results of the response in the
\* response's order, none twice and none out of place (the k-th block renders
\* the k-th result), and in tavily.py the k-th block is numbered k.
C9_OrderPreserved ==
    (pc = "done" /\ op \in ListingOps /\ outcome.kind = "returned") =>
        LET results == ReplyResults
            report == outcome.report
        IN  /\ \A label \in {"Title", "URL", "Content"} :
                LET shown == Labelled(report, label)
                    key == CASE label = "Title" -> "title"
                             [] label = "URL" -> "url"
                             [] label = "Content" -> "content"
                IN  /\ Len(shown) <= Len(results)
                    /\ Len(shown) = Len(Labelled(report, "Content"))
                    /\ \A k \in 1..Len(shown) :
                        shown[k].val = Get(results[k].v, key, S("N/A"))
            /\ op \in LimitOps =>
                /\ Len(BlockHeaders(report)) = Len(Labelled(report, "Content"))
                /\ \A k \in 1..Len(BlockHeaders(report)) : BlockHeaders(report)[k].val = I(k)

\* tavily_search returned a report of two blocks
C9_Witness ==
    /\ pc = "done"
    /\ op = "tavily.tavily_search"
    /\ outcome.kind = "returned"
    /\ Len(BlockHeaders(outcome.report)) = 2
    /\ Len(ReplyResults) = 2

\* no result carries a raw content that is not a string or images that are not strings
PlainResults ==
    \A i \in 1..Len(ReplyResults) :
        LET r == ReplyResults[i].v
        IN  /\ "raw_content" \in DOMAIN r => IsStr(r["raw_content"])
            /\ "images" \in DOMAIN r => Joinable(r["images"])

\* C10 as stated: every listing renders a Title, URL, Content and Score line for
\* each result it renders, with "N/A" for a field the result lacks, and does
\* not fail on a missing field.
C10_AllFieldsRendered ==
    (pc = "done" /\ op \in ListingOps /\ Len(ReplyResults) > 0 /\ PlainResults) =>
        /\ outcome.kind = "returned"
        /\ LET n == IF op \in LimitOps THEN Len(BlockHeaders(outcome.report))
                    ELSE Len(ReplyResults)
           IN  \A label \in {"Title", "URL", "Content", "Score"} :
                    LET shown == Labelled(outcome.report, label)
                        key == CASE label = "Title" -> "title"
                                 [] label = "URL" -> "url"
                                 [] label = "Content" -> "content"
                                 [] label = "Score" -> "score"
                    IN  /\ Len(shown) = n
                        /\ \A k \in 1..n :
                            key \notin DOMAIN ReplyResults[k].v => shown[k].val = S("N/A")

\* an image list that mixes bare URL strings and structured objects
MixedImages(x) ==
    /\ x.t = "list"
    /\ \E i \in 1..Len(x.v) : IsStr(x.v[i])
    /\ \E i \in 1..Len(x.v) : x.v[i].t = "dict"

\* the URL of an image entry of either kind
ImageUrl(image) == IF IsStr(image) THEN image ELSE Get(image.v, "url", S("N/A"))

\* the response is a result list whose every result carries the given keys
ResultsCarry(keys) ==
    /\ reply.kind = "ok"
    /\ "results" \in DOMAIN reply.data.v
    /\ reply.data.v["results"].t = "list"
    /\ \A i \in 1..Len(ReplyResults) : keys \subseteq DOMAIN ReplyResults[i].v

\* C11 as stated: an operation that renders a mixed image list returns a report,
\* in which a string entry is a URL line and an object entry is its URL, with
\* its description when it has one.
C11_MixedImagesRendered ==
    pc = "done" =>
        /\ (/\ op = "tavily.tavily_search_with_images"
            /\ \E i \in 1..Len(PerformResults(reply, args.limit)) :
                LET r == PerformResults(reply, args.limit)[i].v
                IN  "images" \in DOMAIN r /\ MixedImages(r["images"]))
           => outcome.kind = "returned"
        /\ (/\ op = "tavily_tool.tavily_search"
            /\ ResultsCarry({"title", "url", "content"})
            /\ args.include_images
            /\ "images" \in DOMAIN reply.data.v
            /\ MixedImages(reply.data.v["images"]))
           => /\ outcome.kind = "returned"
              /\ LET images == reply.data.v["images"].v
                     Described(image) ==
                        image.t = "dict" /\ "description" \in DOMAIN image.v
                        /\ Truthy(image.v["description"])
                     described == SelectSeq(images, Described)
                 IN  /\ Labelled(outcome.report, "Image URL") =
                            [k \in 1..Len(images) |->
                                Line("Image URL", L(<<I(k), ImageUrl(images[k])>>))]
                     /\ Labelled(outcome.report, "Description") =
                            [k \in 1..Len(described) |->
                                Line("Description", described[k].v["description"])]
        /\ (/\ op = "tavily_tool.tavily_extract"
            /\ ResultsCarry({"url"})
            /\ args.include_images
            /\ \E i \in 1..Len(ReplyResults) :
                "images" \in DOMAIN ReplyResults[i].v /\ MixedImages(ReplyResults[i].v["images"]))
           => /\ outcome.kind = "returned"
              /\ LET shown == Labelled(outcome.report, "Image")
                 IN  \A k \in 1..Len(shown) : IsStr(shown[k].val.v[2])

\* C12 as stated: the report of a tavily.py search operation has at most
\* max(limit, 0) result blocks, whatever the limit and the response.
C12_BlocksWithinLimit ==
    (pc = "done" /\ op \in LimitOps /\ outcome.kind = "returned") =>
        Len(BlockHeaders(outcome.report)) <= Max2(args.limit, 0)

\* C13: the request of tavily_tool.tavily_search carries days exactly when the
\* caller's days is not None and the topic is "news", then with the caller's
\* value; it carries country exactly when the caller's country is not empty and
\* the topic is "general", then in lower case; its topic is the caller's topic.
C13_TopicDependentFields ==
    (op = "tavily_tool.tavily_search" /\ Dispatched) =>
        LET r == request.v
        IN  /\ ("days" \in DOMAIN r) <=> (args.days # NoneV /\ args.topic = "news")
            /\ "days" \in DOMAIN r => r["days"] = args.days
            /\ ("country" \in DOMAIN r) <=>
                    (args.country # NoneV /\ args.country # S("") /\ args.topic = "general")
            /\ "country" \in DOMAIN r => r["country"] = S(Lower(args.country.v))
            /\ r["topic"] = S(args.topic)

\* a general search given both days and a country was dispatched with the
\* country and without days
C13_Witness ==
    /\ op = "tavily_tool.tavily_search"
    /\ Dispatched
    /\ args.topic = "general"
    /\ args.days # NoneV
    /\ args.country = S("US")
    /\ "days" \notin DOMAIN request.v
    /\ request.v["country"] = S("us")

\* C14 as stated: every tavily.py operation ends by returning a string, whatever
\* the transport did and whatever the response carries.
C14_NeverRaises ==
    (pc = "done" /\ op \in TavilyOps) => outcome.kind = "returned"

\* C15 as stated: in the reports of tavily_crawl and tavily_research a raw
\* content of at most 200 characters is shown in full and unchanged, without
\* the "..." marker.
C15_ShortContentUnchanged ==
    (pc = "done" /\ outcome.kind = "returned") =>
        /\ op = "tavily_tool.tavily_crawl" =>
            LET shown == Labelled(outcome.report, "Content")
                pages == SelectSeq(ReplyResults, HasContent)
            IN  \A i \in 1..Len(shown) :
                    Len(pages[i].v["raw_content"].v) <= 200 =>
                        shown[i].val = pages[i].v["raw_content"]
        /\ op = "tavily.tavily_research" =>
            LET shown == Labelled(outcome.report, "Raw Content Preview")
                results == SelectSeq(ReplyResults, HasRaw)
            IN  \A i \in 1..Len(shown) :
                    Len(results[i].v["raw_content"].v) <= 200 =>
                        shown[i].val = results[i].v["raw_content"]

\* C16 as stated: when the request of tavily_tool.tavily_search asked for images
\* and the response carries some, the report has the Images section with one
\* URL line per image.
C16_RequestedImagesShown ==
    (/\ pc = "done"
     /\ op = "tavily_tool.tavily_search"
     /\ ResultsCarry({"title", "url", "content"})
     /\ request.v["include_images"] = B(TRUE)
     /\ "images" \in DOMAIN reply.data.v
     /\ Truthy(reply.data.v["images"])) =>
        /\ outcome.kind = "returned"
        /\ Line("text", S("Images:")) \in
                { outcome.report[i] : i \in 1..Len(outcome.report) }
        /\ Len(Labelled(outcome.report, "Image URL")) = Len(reply.data.v["images"].v)

====
